---- MODULE Spec2Model ----
(***************************************************************************)
(* The FYT admin dashboard (src/dashboard.py): one Streamlit script that   *)
(* on every rerun loads nine tables through a one-hour cache, reads the    *)
(* sidebar widgets, filters the bookings table and derives the aggregates  *)
(* the charts and tables show.                                             *)
(*                                                                         *)
(* Values.  A text cell is a sequence of one-character strings.  A         *)
(* timestamp is a natural number of half-days: 2*d is midnight of day d    *)
(* and 2*d+1 is noon of day d.  A calendar date is a day number d.         *)
(***************************************************************************)
EXTENDS Integers, Sequences, FiniteSets, TLC

\* ------------------------------------------------------------------ bounds
MaxRows == 2          \* rows of the bookings table held by the database
MaxDay == 2           \* the days are 0..MaxDay; the last one is "today"
DaysPerMonth == 2     \* calendar scale of the model: days in a month

\* ------------------------------------------------------- absent markers
NaN == "<NaN>"        \* absent value of a categorical (string) cell
NaText == <<"<NaN>">> \* absent value of a free-text cell
NaT == -1             \* absent value of a datetime cell
BadDate == -2         \* a stored date value that does not parse

\* --------------------------------------------------------------- strings
Lower(ch) ==
    CASE ch = "A" -> "a" [] ch = "M" -> "m" [] ch = "N" -> "n"
      [] ch = "S" -> "s" [] OTHER -> ch

LowerText(t) == [i \in 1..Len(t) |-> Lower(t[i])]

\* literal substring test
IsSubstring(needle, hay) ==
    \E i \in 0..(Len(hay) - Len(needle)) :
        \A j \in 1..Len(needle) : hay[i + j] = needle[j]

\* Series.astype(str): an absent cell becomes the text "nan"
AsTypeStr(cell) == IF cell = NaText THEN <<"n", "a", "n">> ELSE cell

\* Series.str.contains(q, case=False).  The pattern is a regular expression;
\* the texts of this model hold letters only, for which it is a substring test.
StrContains(cell, q) == IsSubstring(LowerText(q), LowerText(AsTypeStr(cell)))

\* ----------------------------------------------------- the Excel cache
\* Texts read_excel takes for missing values (its default na_values); the
\* empty text is what an empty cell reads as.
NaStrings == { <<>>, <<"N", "A">>, <<"n", "a", "n">>, <<"N", "a", "N">> }

\* dataframe_to_bytes: to_excel writes an absent text as an empty cell
ToExcelRow(r) ==
    LET Cell(v) == IF v = NaText THEN <<>> ELSE v
    IN  [r EXCEPT !.advisorcode = Cell(@), !.name = Cell(@), !.destination = Cell(@)]

dataframe_to_bytes(rows) == [i \in 1..Len(rows) |-> ToExcelRow(rows[i])]

\* bytes_to_dataframe: read_excel reads the missing-value texts as absent
FromExcelRow(r) ==
    LET Cell(v) == IF v \in NaStrings THEN NaText ELSE v
    IN  [r EXCEPT !.advisorcode = Cell(@), !.name = Cell(@), !.destination = Cell(@)]

bytes_to_dataframe(bytes) == [i \in 1..Len(bytes) |-> FromExcelRow(bytes[i])]

\* pd.to_datetime(errors='coerce') and the NaT replacement, on one cell
CoerceDate(v) == IF v >= 0 THEN v ELSE NaT

ConvertDates(rows) ==
    [i \in 1..Len(rows) |-> [rows[i] EXCEPT !.booking_date = CoerceDate(@)]]

\* Timestamp.date() and pd.to_datetime(date)
DateOf(ts) == ts \div 2
ToDatetime(d) == 2 * d
MonthOf(ts) == DateOf(ts) \div DaysPerMonth

\* ------------------------------------------------------- the database
\* The logical tables of load_all_data, in the order of its queries.
TableNames ==
    << "bookings", "payments", "commissions", "revenues", "advisors",
       "clients", "tours", "users", "tourspackage" >>

Tables == {TableNames[i] : i \in 1..Len(TableNames)}

\* Columns of the bookings query the join itself names, and the columns the
\* script reads out of "b.*", which the bookings table may or may not have.
JoinedColumns == {"destination", "advisorcode", "client_type", "country"}
BookingColumns ==
    {"booking_id", "booking_date", "travel_date", "payment_status", "status",
     "total_amount", "number_of_travelers"}

\* The schemas considered: the bookings table with or without a "name"
\* column, or lacking one of the numeric columns.
AllColumns == JoinedColumns \cup BookingColumns \cup {"name"}

Schemas ==
    { AllColumns,
      AllColumns \ {"name"},
      AllColumns \ {"number_of_travelers"},
      AllColumns \ {"total_amount"} }

\* Rows the database may hold.
RowPool ==
    { [booking_id |-> 1, booking_date |-> 0, payment_status |-> "Paid",
       status |-> "Confirmed", client_type |-> "Individual", country |-> "RW",
       advisorcode |-> <<"S", "M">>, name |-> <<"a", "m">>,
       destination |-> <<"m", "a">>, total_amount |-> 3,
       number_of_travelers |-> 2],
      [booking_id |-> 2, booking_date |-> 2, payment_status |-> "Pending",
       status |-> "Confirmed", client_type |-> "Corporate", country |-> "RW",
       advisorcode |-> <<"A", "N">>, name |-> <<"s", "m">>,
       destination |-> <<"s", "a">>, total_amount |-> 1,
       number_of_travelers |-> 1],
      [booking_id |-> 3, booking_date |-> NaT, payment_status |-> NaN,
       status |-> NaN, client_type |-> NaN, country |-> NaN,
       advisorcode |-> NaText, name |-> NaText,
       destination |-> NaText, total_amount |-> 2,
       number_of_travelers |-> 1],
      [booking_id |-> 4, booking_date |-> 2 * MaxDay + 1, payment_status |-> "Paid",
       status |-> "Cancelled", client_type |-> "Individual", country |-> "KE",
       advisorcode |-> <<"S", "M">>, name |-> <<>>,
       destination |-> <<"N", "A">>, total_amount |-> 2,
       number_of_travelers |-> 3],
      [booking_id |-> 5, booking_date |-> BadDate, payment_status |-> "Pending",
       status |-> "Cancelled", client_type |-> "Corporate", country |-> "KE",
       advisorcode |-> <<"M", "A">>, name |-> <<"n", "a">>,
       destination |-> <<"m", "a">>, total_amount |-> 1,
       number_of_travelers |-> 2] }

\* sequences of distinct pool rows, at most n long
RECURSIVE RowSeqs(_)
RowSeqs(n) ==
    IF n = 0 THEN { <<>> }
    ELSE LET shorter == RowSeqs(n - 1)
         IN  shorter \cup
             { Append(s, r) : s \in shorter, r \in RowPool } 

Ids(rows) == {rows[i].booking_id : i \in 1..Len(rows)}

DbTables == { s \in RowSeqs(MaxRows) : Cardinality(Ids(s)) = Len(s) }

\* ----------------------------------------------------------- the filter
\* The result of a script step over a table: the rows it produced, or the
\* KeyError it raised (err names the column that was looked up). new tells
\* whether the table is one the step built (df[mask]) or the very table
\* object that was passed in.
Ok(rows) == [err |-> "", rows |-> rows, new |-> TRUE]
KeyError(col) == [err |-> col, rows |-> <<>>, new |-> FALSE]

\* Variant with a plausible slip: the function starts from a copy of its
\* argument (df = df.copy()).
CopyOf(rows) == [err |-> "", rows |-> rows, new |-> TRUE]

\* the parameter df of apply_filters on entry: the caller's table itself
Given(rows) == [err |-> "", rows |-> rows, new |-> FALSE]

\* Variants of Select with a plausible slip: the kept rows in reverse
\* order, and the kept rows without the first of them.
RECURSIVE SelectReversed(_, _)
SelectReversed(rows, mask) ==
    IF rows = <<>> THEN <<>>
    ELSE IF mask[1] THEN SelectReversed(Tail(rows), Tail(mask)) \o <<rows[1]>>
         ELSE SelectReversed(Tail(rows), Tail(mask))

RECURSIVE SelectAll(_, _)
SelectAll(rows, mask) ==
    IF rows = <<>> THEN <<>>
    ELSE IF mask[1] THEN <<rows[1]>> \o SelectAll(Tail(rows), Tail(mask))
         ELSE SelectAll(Tail(rows), Tail(mask))

SelectDropFirst(rows, mask) ==
    IF SelectAll(rows, mask) = <<>> THEN <<>> ELSE Tail(SelectAll(rows, mask))

\* df[mask]: the rows whose mask is true, in their order
RECURSIVE Select(_, _)
Select(rows, mask) ==
    IF rows = <<>> THEN <<>>
    ELSE IF mask[1] THEN <<rows[1]>> \o Select(Tail(rows), Tail(mask))
         ELSE Select(Tail(rows), Tail(mask))

\* the first column of the sequence wanted that the table lacks, or ""
RECURSIVE FirstMissing(_, _)
FirstMissing(wanted, cols) ==
    IF wanted = <<>> THEN ""
    ELSE IF wanted[1] \notin cols THEN wanted[1]
         ELSE FirstMissing(Tail(wanted), cols)

DateMask(rows, c) ==
    [i \in 1..Len(rows) |->
        /\ rows[i].booking_date # NaT
        /\ rows[i].booking_date >= ToDatetime(c.date_range[1])
        /\ rows[i].booking_date <= ToDatetime(c.date_range[2])]

PaymentMask(rows, c) ==
    [i \in 1..Len(rows) |-> rows[i].payment_status \in c.payment_status]

BookingMask(rows, c) ==
    [i \in 1..Len(rows) |-> rows[i].status \in c.booking_status]

ClientTypeMask(rows, c) ==
    [i \in 1..Len(rows) |-> rows[i].client_type = c.client_type]

CountryMask(rows, c) ==
    [i \in 1..Len(rows) |-> rows[i].country = c.country]

AdvisorMask(rows, c) ==
    [i \in 1..Len(rows) |->
        \/ StrContains(rows[i].advisorcode, c.advisor)
        \/ StrContains(rows[i].name, c.advisor)]

DestinationMask(rows, c) ==
    [i \in 1..Len(rows) |-> StrContains(rows[i].destination, c.destination)]

\* Variants with a plausible slip: a status selection that filters even
\* when it is empty, a client type that filters even when it is "All".
PaymentAlwaysActive(c) == TRUE
ClientTypeAlwaysActive(c) == TRUE

DateActive(c) == Len(c.date_range) = 2
PaymentActive(c) == c.payment_status # {}
BookingActive(c) == c.booking_status # {}
ClientTypeActive(c) == c.client_type # "All"
CountryActive(c) == c.country # "All"
AdvisorActive(c) == c.advisor # <<>>
DestinationActive(c) == c.destination # <<>>

\* the predicates of apply_filters, in the order it applies them
Predicates ==
    << "date", "payment", "booking", "client_type", "country", "advisor",
       "destination" >>

ActiveOf(kind, c) ==
    CASE kind = "date" -> DateActive(c)
      [] kind = "payment" -> PaymentActive(c)
      [] kind = "booking" -> BookingActive(c)
      [] kind = "client_type" -> ClientTypeActive(c)
      [] kind = "country" -> CountryActive(c)
      [] kind = "advisor" -> AdvisorActive(c)
      [] kind = "destination" -> DestinationActive(c)

\* the columns a predicate looks up, in the order it does
WantedOf(kind) ==
    CASE kind = "date" -> <<"booking_date">>
      [] kind = "payment" -> <<"payment_status">>
      [] kind = "booking" -> <<"status">>
      [] kind = "client_type" -> <<"client_type">>
      [] kind = "country" -> <<"country">>
      [] kind = "advisor" -> <<"advisorcode", "name">>
      [] kind = "destination" -> <<"destination">>

MaskOf(kind, rows, c) ==
    CASE kind = "date" -> DateMask(rows, c)
      [] kind = "payment" -> PaymentMask(rows, c)
      [] kind = "booking" -> BookingMask(rows, c)
      [] kind = "client_type" -> ClientTypeMask(rows, c)
      [] kind = "country" -> CountryMask(rows, c)
      [] kind = "advisor" -> AdvisorMask(rows, c)
      [] kind = "destination" -> DestinationMask(rows, c)

\* One predicate of apply_filters on the table so far: skipped when its
\* criterion is not set, and df stays bound to the same table; otherwise
\* its columns are looked up in order (a missing one raises KeyError) and
\* df is bound to the new table df[mask].
Step(f, kind, cols, c) ==
    IF f.err # "" \/ ~ActiveOf(kind, c) THEN f
    ELSE IF FirstMissing(WantedOf(kind), cols) # ""
         THEN KeyError(FirstMissing(WantedOf(kind), cols))
         ELSE Ok(Select(f.rows, MaskOf(kind, f.rows, c)))

\* apply_filters(df) under the sidebar's criteria c, on a table with columns cols
RECURSIVE ApplyFrom(_, _, _, _)
ApplyFrom(f, k, cols, c) ==
    IF k > Len(Predicates) THEN f
    ELSE ApplyFrom(Step(f, Predicates[k], cols, c), k + 1, cols, c)

apply_filters(rows, cols, c) == ApplyFrom(Given(rows), 1, cols, c)

\* The caller's table after apply_filters(df) has returned result: each
\* "df = df[mask]" binds the function's own name to a new table, and no
\* statement writes into df, so the table passed in keeps its rows.
TableAfterFilter(rows, result) == rows

\* ------------------------------------------------------- the aggregates
RECURSIVE SumOver(_, _)
SumOver(rows, col) ==
    IF rows = <<>> THEN 0 ELSE rows[1][col] + SumOver(Tail(rows), col)

\* Variant with a plausible slip: a count for every known status, zero
\* when no row has it.
StatusCountsZeroFilled(rows) ==
    [k \in {"Confirmed", "Cancelled"} |->
        Cardinality({i \in 1..Len(rows) : rows[i].status = k})]

\* df_filtered['status'].value_counts(): a count per status that occurs
\* (absent cells are not counted); the order of the entries is not modelled
StatusCounts(rows) ==
    LET keys == {rows[i].status : i \in 1..Len(rows)} \ {NaN}
    IN  [k \in keys |-> Cardinality({i \in 1..Len(rows) : rows[i].status = k})]

\* df_filtered.groupby(booking_date.dt.to_period('M')).size()
MonthCounts(rows) ==
    LET dated == {i \in 1..Len(rows) : rows[i].booking_date # NaT}
        keys == {MonthOf(rows[i].booking_date) : i \in dated}
    IN  [k \in keys |->
            Cardinality({i \in dated : MonthOf(rows[i].booking_date) = k})]

\* .head(5) of the agent table
TopN == 5

\* one group of df_filtered.groupby(['advisorcode']).agg(...); the mean of
\* number_of_travelers is kept as the pair sum, count
AdvisorGroup(rows, code) ==
    LET Of(r) == r.advisorcode = code
        members == SelectSeq(rows, Of)
    IN  [advisorcode |-> code,
         bookings |-> Len(members),
         total_amount |-> SumOver(members, "total_amount"),
         avg_group_size |-> <<SumOver(members, "number_of_travelers"), Len(members)>>]

AdvisorGroups(rows) ==
    { AdvisorGroup(rows, code) :
        code \in {rows[i].advisorcode : i \in 1..Len(rows)} \ {NaText} }

\* The tables top_advisors may be: the groups in descending order of
\* bookings, cut to the first TopN.  sort_values does not fix the order of
\* groups with equal bookings, so every such order is a possible outcome.
TopAdvisors(rows) ==
    LET groups == AdvisorGroups(rows)
        n == Cardinality(groups)
        sorted == { s \in [1..n -> groups] :
                      /\ \A i, j \in 1..n : i # j => s[i] # s[j]
                      /\ \A i, j \in 1..n : i < j => s[i].bookings >= s[j].bookings }
    IN  { SubSeq(s, 1, IF n < TopN THEN n ELSE TopN) : s \in sorted }

\* ----------------------------------------------------------- the sidebar
Max(S) == CHOOSE x \in S : \A y \in S : y <= x
Min(S) == CHOOSE x \in S : \A y \in S : x <= y

ValidDates(rows) ==
    {rows[i].booking_date : i \in 1..Len(rows)} \ {NaT}

\* date(2023, 1, 1) is day 0 of the model and date.today() its last day
min_date(rows) ==
    IF ValidDates(rows) # {} THEN DateOf(Min(ValidDates(rows))) ELSE 0
max_date(rows) ==
    IF ValidDates(rows) # {} THEN DateOf(Max(ValidDates(rows))) ELSE MaxDay

\* st.date_input over [min_date, max_date]: one date while the user is
\* still picking the range (only the earliest is drawn: the script reads no
\* more than the length of such a value), or start and end with start <= end
DateRanges(rows) ==
    LET days == min_date(rows)..max_date(rows)
    IN  { <<min_date(rows)>> } \cup
        { <<p[1], p[2]>> : p \in {q \in days \X days : q[1] <= q[2]} }

PaymentOptions(rows) == {rows[i].payment_status : i \in 1..Len(rows)} \ {NaN}
BookingOptions(rows) == {rows[i].status : i \in 1..Len(rows)} \ {NaN}

\* client types of df_clients and countries of df_users
ClientTypes == {"Individual", "Corporate"}
Countries == {"RW", "KE"}

\* texts typed into the two search boxes
AdvisorQueries == { <<>>, <<"s", "m">>, <<"n", "a">> }
DestinationQueries == { <<>>, <<"N", "a">>, <<"s", "s">> }

\* every value the widgets can hand to the script for a bookings table
Criteria(rows) ==
    [date_range : DateRanges(rows),
     payment_status : SUBSET PaymentOptions(rows),
     booking_status : SUBSET BookingOptions(rows),
     client_type : {"All"} \cup ClientTypes,
     country : {"All"} \cup Countries,
     advisor : AdvisorQueries,
     destination : DestinationQueries]

\* the widgets' values on the first run of a session
DefaultCriteria(rows) ==
    [date_range |-> <<min_date(rows), max_date(rows)>>,
     payment_status |-> PaymentOptions(rows),
     booking_status |-> BookingOptions(rows),
     client_type |-> "All",
     country |-> "All",
     advisor |-> <<>>,
     destination |-> <<>>]

\* ------------------------------------------------------------- the state
VARIABLES
    db_bookings,            \* rows of the bookings query in the database
    columns,                \* columns of the bookings query's result
    clock,                  \* seconds since the session began
    cache,                  \* st.cache_data of load_cached_data, per query
    issued,                 \* per table, the times its query ran on the database
    ticks,                  \* how often the clock has advanced
    runs,                   \* reruns of the script so far
    data,                   \* keys of the dict load_all_data is filling
    loading,                \* position of the loop of load_all_data
    df_bookings,            \* data['bookings']
    criteria,               \* the sidebar's values of this run
    df_filtered,            \* apply_filters(df_bookings): rows or KeyError
    df_again,               \* apply_filters applied to df_filtered
    booking_status_counts,  \* status -> count
    bookings_by_month,      \* month -> count
    top_advisors,           \* the agent table
    rendered,               \* sections of the page this run has produced
    error,                  \* key of the KeyError that stopped this run, or ""
    pc                      \* position of the run in the script

dbVars == << db_bookings, columns >>
cacheVars == << clock, cache, issued, ticks >>
runVars == << runs, data, loading, rendered, error >>
aggVars == << booking_status_counts, bookings_by_month, top_advisors >>

vars ==
    << db_bookings, columns, clock, cache, issued, ticks, runs, data,
       loading, df_bookings, criteria, df_filtered, df_again, booking_status_counts,
       bookings_by_month, top_advisors, rendered, error, pc >>

Nothing == [k \in {} |-> 0]

\* ----------------------------------------------------------- the script
MaxRuns == 1          \* reruns of the script after the first run
MaxTicks == 2         \* advances of the clock, of half a cache window each

\* @st.cache_data(ttl=3600)
TTL == 3600

NoEntry == [at |-> 0 - 1, ok |-> FALSE, bytes |-> <<>>]

\* an entry is served until ttl seconds after it was stored
Cached(t) == cache[t].at >= 0 /\ clock < cache[t].at + TTL

\* load_cached_data(engine, query) for table t when the query is run: the
\* bytes of the result, or None (ok false) when pd.read_sql raises; the
\* entry is stamped with the time at which it is stored
QueryResult(t, fails) ==
    IF fails THEN [at |-> clock, ok |-> FALSE, bytes |-> <<>>]
    ELSE [at |-> clock, ok |-> TRUE,
          bytes |-> IF t = "bookings" THEN dataframe_to_bytes(db_bookings) ELSE <<>>]

\* the widgets with everything cleared: one date picked, no status
\* selected, "All" twice and both search boxes empty
ClearedCriteria(rows) ==
    [date_range |-> <<min_date(rows)>>,
     payment_status |-> {},
     booking_status |-> {},
     client_type |-> "All",
     country |-> "All",
     advisor |-> <<>>,
     destination |-> <<>>]

\* widget values of a run of the session: the defaults with the one widget
\* the user touched set to any of its values, or every widget cleared
SessionCriteria(rows) ==
    LET d == DefaultCriteria(rows)
    IN  { [d EXCEPT !.date_range = v] : v \in DateRanges(rows) }
        \cup { [d EXCEPT !.payment_status = v] : v \in SUBSET PaymentOptions(rows) }
        \cup { [d EXCEPT !.booking_status = v] : v \in SUBSET BookingOptions(rows) }
        \cup { [d EXCEPT !.client_type = v] : v \in {"All"} \cup ClientTypes }
        \cup { [d EXCEPT !.country = v] : v \in {"All"} \cup Countries }
        \cup { [d EXCEPT !.advisor = v] : v \in AdvisorQueries }
        \cup { [d EXCEPT !.destination = v] : v \in DestinationQueries }
        \cup { ClearedCriteria(rows) }

\* database contents of a session: tables of MaxRows rows in the order of
\* booking_id, the serial key of the bookings table
SessionTables ==
    { s \in DbTables :
        /\ Len(s) = MaxRows
        /\ \A i \in 1..(Len(s) - 1) : s[i + 1].booking_id = s[i].booking_id + 1 }

Init ==
    /\ db_bookings \in SessionTables
    /\ columns \in Schemas
    /\ clock = 0
    /\ cache = [t \in Tables |-> NoEntry]
    /\ issued = [t \in Tables |-> <<>>]
    /\ ticks = 0
    /\ runs = 0
    /\ data = {}
    /\ loading = 1
    /\ df_bookings = <<>>
    /\ criteria = DefaultCriteria(<<>>)
    /\ df_filtered = Ok(<<>>)
    /\ df_again = Ok(<<>>)
    /\ booking_status_counts = Nothing
    /\ bookings_by_month = Nothing
    /\ top_advisors = <<>>
    /\ rendered = {}
    /\ error = ""
    /\ pc = "load"

\* positions of a run of the script: "query" is pd.read_sql at work inside
\* load_cached_data, "error" the call of st.error in its except branch
ScriptPositions ==
    {"load", "query", "error", "unpack", "sidebar", "filter", "alerts", "kpi",
     "revenue", "bookings", "agents", "clients", "done", "aborted"}

\* Streamlit stops a run only where the script calls into it: at the
\* status and progress calls of the loading loop, at st.error, and at the
\* widgets and elements of the page; never inside pd.read_sql
YieldPoints == ScriptPositions \ {"query"}

\* time passes, between two runs or inside one, between two lookups or
\* while a query runs: the script reads the clock only in the lookups and
\* the stores of the cache, so the time that passes elsewhere is counted at
\* the lookup that follows it
Tick ==
    /\ pc \in {"load", "query", "error"}
    /\ ticks < MaxTicks
    /\ clock' = clock + TTL \div 2
    /\ ticks' = ticks + 1
    /\ UNCHANGED << dbVars, cache, issued, runVars, df_bookings, criteria,
                    df_filtered, df_again, aggVars, pc >>

\* a widget is touched or the page is loaded again: Streamlit stops the
\* run where it is and runs the script again from the top; the cache is
\* the process's and outlives the run. A run stopped inside st.error
\* leaves load_cached_data without a return value: nothing is stored.
Rerun ==
    /\ pc \in YieldPoints
    /\ runs < MaxRuns
    /\ runs' = runs + 1
    /\ data' = {}
    /\ loading' = 1
    /\ df_bookings' = <<>>
    /\ criteria' = DefaultCriteria(<<>>)
    /\ df_filtered' = Ok(<<>>)
    /\ booking_status_counts' = Nothing
    /\ bookings_by_month' = Nothing
    /\ top_advisors' = <<>>
    /\ rendered' = {}
    /\ error' = ""
    /\ pc' = "load"
    /\ UNCHANGED << dbVars, cacheVars, df_again >>

\* the end of a turn of the loop of load_all_data, with the value entry
\* that load_cached_data returned for table t: data gets the table unless
\* the value is None; after the last table the function returns data
EndTurn(t, entry) ==
    /\ data' = IF entry.ok THEN data \cup {t} ELSE data
    /\ df_bookings' = IF t = "bookings" /\ entry.ok
                      THEN bytes_to_dataframe(entry.bytes)
                      ELSE df_bookings
    /\ loading' = loading + 1
    /\ pc' = IF loading < Len(TableNames) THEN "load" ELSE "unpack"

\* a turn of the loop of load_all_data begins, for the table the loop is
\* at: load_cached_data(engine, query) is served from the cache and the
\* turn ends, or the cache has no live entry and pd.read_sql is called
LoadAllData ==
    /\ pc = "load"
    /\ LET t == TableNames[loading]
       IN  IF Cached(t)
           THEN /\ EndTurn(t, cache[t])
                /\ UNCHANGED issued
           ELSE /\ issued' = [issued EXCEPT ![t] = Append(@, clock)]
                /\ pc' = "query"
                /\ UNCHANGED << data, loading, df_bookings >>
    /\ UNCHANGED << dbVars, clock, cache, ticks, runs, criteria, df_filtered,
                    df_again, aggVars, rendered, error >>

\* pd.read_sql returns: load_cached_data returns the bytes, which the
\* cache stores with the time of the store, and the turn ends; or it
\* raises and the except branch calls st.error
ReadSql ==
    /\ pc = "query"
    /\ LET t == TableNames[loading]
       IN  \E fails \in BOOLEAN :
              IF fails
              THEN /\ pc' = "error"
                   /\ UNCHANGED << cache, data, loading, df_bookings >>
              ELSE /\ cache' = [cache EXCEPT ![t] = QueryResult(t, FALSE)]
                   /\ EndTurn(t, cache'[t])
    /\ UNCHANGED << dbVars, clock, issued, ticks, runs, criteria, df_filtered,
                    df_again, aggVars, rendered, error >>

\* st.error returns: load_cached_data returns None, which the cache
\* stores, and the turn ends
StError ==
    /\ pc = "error"
    /\ LET t == TableNames[loading]
       IN  /\ cache' = [cache EXCEPT ![t] = QueryResult(t, TRUE)]
           /\ EndTurn(t, cache'[t])
    /\ UNCHANGED << dbVars, clock, issued, ticks, runs, criteria, df_filtered,
                    df_again, aggVars, rendered, error >>

\* the first table, in the order the script reads them, that data lacks
MissingTable == FirstMissing(TableNames, data)

\* df_bookings = data['bookings'] ... df_tourspackage = data['tourspackage'],
\* then the date columns are converted in place
Unpack ==
    /\ pc = "unpack"
    /\ IF MissingTable # ""
       THEN /\ error' = MissingTable
            /\ pc' = "aborted"
            /\ UNCHANGED df_bookings
       ELSE /\ df_bookings' = ConvertDates(df_bookings)
            /\ pc' = "sidebar"
            /\ UNCHANGED error
    /\ UNCHANGED << dbVars, cacheVars, runs, data, loading, criteria, df_filtered,
                    df_again, aggVars, rendered >>

\* the sidebar widgets hand their values to the script
Sidebar ==
    /\ pc = "sidebar"
    /\ criteria' \in SessionCriteria(df_bookings)
    /\ pc' = "filter"
    /\ UNCHANGED << dbVars, cacheVars, runVars, df_bookings, df_filtered,
                    df_again, aggVars >>

\* a section of the page that reads the columns wanted of the filtered
\* table: it is produced, or the first missing column stops the run
Section(name, wanted, next) ==
    IF FirstMissing(wanted, columns) # ""
    THEN /\ error' = FirstMissing(wanted, columns)
         /\ pc' = "aborted"
         /\ UNCHANGED rendered
    ELSE /\ rendered' = rendered \cup {name}
         /\ pc' = next
         /\ UNCHANGED error

\* df_filtered = apply_filters(df_bookings)
Filter ==
    /\ pc = "filter"
    /\ df_filtered' = apply_filters(df_bookings, columns, criteria)
    /\ IF df_filtered'.err # ""
       THEN error' = df_filtered'.err /\ pc' = "aborted"
       ELSE pc' = "alerts" /\ UNCHANGED error
    /\ df_bookings' = TableAfterFilter(df_bookings, df_filtered')
    /\ UNCHANGED << dbVars, cacheVars, runs, data, loading, rendered, criteria,
                    df_again, aggVars >>

\* the alerts read the users, payments and advisors tables
Alerts ==
    /\ pc = "alerts"
    /\ Section("alerts", <<>>, "kpi")
    /\ UNCHANGED << dbVars, cacheVars, runs, data, loading, df_bookings, criteria,
                    df_filtered, df_again, aggVars >>

KPIMetrics ==
    /\ pc = "kpi"
    /\ Section("kpi", <<"booking_id", "number_of_travelers", "travel_date">>,
               "revenue")
    /\ UNCHANGED << dbVars, cacheVars, runs, data, loading, df_bookings, criteria,
                    df_filtered, df_again, aggVars >>

\* the revenue and payment charts read the revenues and payments tables
RevenueAndPayments ==
    /\ pc = "revenue"
    /\ Section("revenue", <<>>, "bookings")
    /\ UNCHANGED << dbVars, cacheVars, runs, data, loading, df_bookings, criteria,
                    df_filtered, df_again, aggVars >>

BookingsAnalysis ==
    /\ pc = "bookings"
    /\ Section("bookings", <<"status", "booking_date">>, "agents")
    /\ IF pc' = "agents"
       THEN /\ booking_status_counts' = StatusCounts(df_filtered.rows)
            /\ bookings_by_month' = MonthCounts(df_filtered.rows)
       ELSE UNCHANGED << booking_status_counts, bookings_by_month >>
    /\ UNCHANGED << dbVars, cacheVars, runs, data, loading, df_bookings, criteria,
                    df_filtered, df_again, top_advisors >>

AgentPerformance ==
    /\ pc = "agents"
    /\ Section("agents", <<"advisorcode", "booking_id", "total_amount",
                           "number_of_travelers">>, "clients")
    /\ IF pc' = "clients"
       THEN top_advisors' \in TopAdvisors(df_filtered.rows)
       ELSE UNCHANGED top_advisors
    /\ UNCHANGED << dbVars, cacheVars, runs, data, loading, df_bookings, criteria,
                    df_filtered, df_again, booking_status_counts,
                    bookings_by_month >>

\* the client charts read the clients and users tables; the footer follows
ClientInsights ==
    /\ pc = "clients"
    /\ Section("clients", <<>>, "done")
    /\ UNCHANGED << dbVars, cacheVars, runs, data, loading, df_bookings, criteria,
                    df_filtered, df_again, aggVars >>

\* the runs of a session inside one cache window: the clock stands still
Next ==
    \/ Rerun
    \/ LoadAllData
    \/ ReadSql
    \/ StError
    \/ Unpack
    \/ Sidebar
    \/ Filter
    \/ Alerts
    \/ KPIMetrics
    \/ RevenueAndPayments
    \/ BookingsAnalysis
    \/ AgentPerformance
    \/ ClientInsights

Spec == Init /\ [][Next]_vars

\* ------------------------------------------------- the cache over time
\* The loading passes of the runs as time passes. The statements after
\* load_all_data neither read the clock nor touch the cache, so the runs
\* are followed up to the return of load_all_data; the cache keeps the
\* bytes it is given without looking into them, so one bookings table is
\* held by the database.
CacheTables == { s \in SessionTables : Ids(s) = 1..MaxRows }

CacheInit ==
    /\ Init
    /\ db_bookings \in CacheTables
    /\ columns = AllColumns

CacheNext == Tick \/ Rerun \/ LoadAllData \/ ReadSql \/ StError

CacheSpec == CacheInit /\ [][CacheNext]_vars

\* --------------------------------------------- the filter and aggregates
\* apply_filters and the aggregates as functions of a loaded bookings table
\* and of the sidebar's values, over every value the widgets can take.

\* what load_all_data and the date conversion make of the database's rows
Loaded(rows) == ConvertDates(bytes_to_dataframe(dataframe_to_bytes(rows)))

\* bookings tables with every column the filter and the aggregates read,
\* and the one the bookings query returns when bookings has no name column
FilterSchemas == { AllColumns, AllColumns \ {"name"} }

FilterInit ==
    /\ db_bookings \in DbTables
    /\ columns \in FilterSchemas
    /\ clock = 0
    /\ cache = [t \in Tables |-> NoEntry]
    /\ issued = [t \in Tables |-> <<>>]
    /\ ticks = 0
    /\ runs = 0
    /\ data = Tables
    /\ loading = Len(TableNames) + 1
    /\ df_bookings = Loaded(db_bookings)
    /\ criteria \in Criteria(df_bookings)
    /\ df_filtered = Ok(<<>>)
    /\ df_again = Ok(<<>>)
    /\ booking_status_counts = Nothing
    /\ bookings_by_month = Nothing
    /\ top_advisors = <<>>
    /\ rendered = {}
    /\ error = ""
    /\ pc = "apply"

\* df_filtered = apply_filters(df_bookings)
ApplyFilters ==
    /\ pc = "apply"
    /\ df_filtered' = apply_filters(df_bookings, columns, criteria)
    /\ pc' = IF df_filtered'.err = "" THEN "aggregate" ELSE "raised"
    /\ df_bookings' = TableAfterFilter(df_bookings, df_filtered')
    /\ UNCHANGED << dbVars, cacheVars, runVars, criteria, df_again, aggVars >>

\* the three group-by aggregates of the filtered table
Aggregate ==
    /\ pc = "aggregate"
    /\ booking_status_counts' = StatusCounts(df_filtered.rows)
    /\ bookings_by_month' = MonthCounts(df_filtered.rows)
    /\ top_advisors' \in TopAdvisors(df_filtered.rows)
    /\ pc' = "again"
    /\ UNCHANGED << dbVars, cacheVars, runVars, df_bookings, criteria,
                    df_filtered, df_again >>

\* apply_filters on its own output, under the same criteria
ApplyFiltersAgain ==
    /\ pc = "again"
    /\ df_again' = apply_filters(df_filtered.rows, columns, criteria)
    /\ pc' = "end"
    /\ UNCHANGED << dbVars, cacheVars, runVars, df_bookings, criteria,
                    df_filtered, aggVars >>

FilterNext == ApplyFilters \/ Aggregate \/ ApplyFiltersAgain

FilterSpec == FilterInit /\ [][FilterNext]_vars

\* ================================================================ claims
\* apply_filters has returned a table / has returned or raised
Filtered == pc \in {"aggregate", "again", "end"}
Returned == pc \in {"aggregate", "again", "end", "raised"}
Aggregated == pc \in {"again", "end"}

\* a is b with some rows left out: same rows, same relative order
RECURSIVE IsSubsequence(_, _)
IsSubsequence(a, b) ==
    IF a = <<>> THEN TRUE
    ELSE IF b = <<>> THEN FALSE
    ELSE IF a[1] = b[1] THEN IsSubsequence(Tail(a), Tail(b))
         ELSE IsSubsequence(a, Tail(b))

OthersInactive(c, field) ==
    /\ field = "date" \/ ~DateActive(c)
    /\ c.payment_status = {}
    /\ c.booking_status = {}
    /\ c.client_type = "All"
    /\ c.country = "All"
    /\ field = "advisor" \/ c.advisor = <<>>
    /\ c.destination = <<>>

\* C1: the table apply_filters returns holds only rows of the bookings
\* table, none twice or changed, in the order they have in the bookings table.
C1_SubsetInOrder == Filtered => IsSubsequence(df_filtered.rows, df_bookings)

C1_Witness ==
    /\ Filtered
    /\ Len(df_bookings) >= 2
    /\ Len(df_filtered.rows) >= 1
    /\ df_filtered.rows[1] = df_bookings[2]

\* C2: with a date range (start, end) set and no other criterion, the rows
\* kept are exactly those whose booking date is present and falls on a day d
\* with start <= d <= end.
OnDayInRange(r) ==
    /\ r.booking_date # NaT
    /\ criteria.date_range[1] <= DateOf(r.booking_date)
    /\ DateOf(r.booking_date) <= criteria.date_range[2]

C2_InclusiveDays ==
    (Filtered /\ DateActive(criteria) /\ OthersInactive(criteria, "date"))
        => df_filtered.rows = SelectSeq(df_bookings, OnDayInRange)

\* C3: with a non-empty advisor query q, apply_filters does not raise, and
\* (no other criterion set) keeps exactly the rows whose advisor code or
\* advisor name is present and contains q, letter case ignored.
TextHas(cell, q) == cell # NaText /\ IsSubstring(LowerText(q), LowerText(cell))

CodeOrNameHas(r) ==
    TextHas(r.advisorcode, criteria.advisor) \/ TextHas(r.name, criteria.advisor)

C3_AdvisorQuery ==
    (Returned /\ AdvisorActive(criteria))
        => /\ df_filtered.err = ""
           /\ OthersInactive(criteria, "advisor")
                => df_filtered.rows = SelectSeq(df_bookings, CodeOrNameHas)

\* C4 as stated: an empty payment-status or booking-status selection
\* matches nothing, so the filtered table is empty.
C4_EmptyMatchesNothing ==
    (Filtered /\ (criteria.payment_status = {} \/ criteria.booking_status = {}))
        => df_filtered.rows = <<>>

\* C4 as amended: an empty payment-status or booking-status selection is no
\* constraint; a row is kept exactly when it passes the criteria that are set.
PassesSet(r) ==
    /\ DateActive(criteria) => DateMask(<<r>>, criteria)[1]
    /\ criteria.payment_status # {} => r.payment_status \in criteria.payment_status
    /\ criteria.booking_status # {} => r.status \in criteria.booking_status
    /\ ClientTypeActive(criteria) => ClientTypeMask(<<r>>, criteria)[1]
    /\ CountryActive(criteria) => CountryMask(<<r>>, criteria)[1]
    /\ AdvisorActive(criteria) => AdvisorMask(<<r>>, criteria)[1]
    /\ DestinationActive(criteria) => DestinationMask(<<r>>, criteria)[1]

C4_EmptyIsNoConstraint ==
    (Filtered /\ (criteria.payment_status = {} \/ criteria.booking_status = {}))
        => df_filtered.rows = SelectSeq(df_bookings, PassesSet)

C4_Witness ==
    /\ Filtered
    /\ criteria.payment_status = {}
    /\ criteria.booking_status # {}
    /\ PaymentOptions(df_bookings) # {}
    /\ Len(df_filtered.rows) >= 1
    /\ Len(df_filtered.rows) < Len(df_bookings)

\* C5: a kept row has a value on the column of every criterion that is set
\* (for the advisor query, on the advisor code or the advisor name).
C5_AbsentExcluded ==
    Filtered =>
        \A i \in 1..Len(df_filtered.rows) :
            LET r == df_filtered.rows[i]
            IN  /\ DateActive(criteria) => r.booking_date # NaT
                /\ PaymentActive(criteria) => r.payment_status # NaN
                /\ BookingActive(criteria) => r.status # NaN
                /\ ClientTypeActive(criteria) => r.client_type # NaN
                /\ CountryActive(criteria) => r.country # NaN
                /\ AdvisorActive(criteria)
                     => (r.advisorcode # NaText \/ r.name # NaText)
                /\ DestinationActive(criteria) => r.destination # NaText

\* C6: when the query of a table fails, the run goes on with the tables
\* that did load: it is not stopped on account of the missing table.
C6_LoadFailureIsolated ==
    (pc # "load" /\ "bookings" \in data /\ data # Tables) => pc # "aborted"

\* C7: a column that a filter predicate or an aggregate reads and the
\* bookings table lacks does not stop the run: no run ends on the KeyError
\* of a column, so every section of the page is still produced.
C7_MissingColumnContained == ~(pc = "aborted" /\ error \in AllColumns)

\* C8: when no criterion is set, apply_filters returns the bookings table
\* as it is: the same rows in the same order.
NoConstraint(c) ==
    /\ Len(c.date_range) # 2
    /\ c.payment_status = {}
    /\ c.booking_status = {}
    /\ c.client_type = "All"
    /\ c.country = "All"
    /\ c.advisor = <<>>
    /\ c.destination = <<>>

C8_Identity ==
    (Returned /\ NoConstraint(criteria))
        => df_filtered.err = "" /\ df_filtered.rows = df_bookings

C8_Witness ==
    /\ Returned
    /\ NoConstraint(criteria)
    /\ Len(df_bookings) >= 2
    /\ "name" \notin columns

\* C9: filtering the filtered table again under the same criteria gives the
\* filtered table.
C9_Idempotent == pc = "end" => df_again = df_filtered

C9_Witness ==
    /\ pc = "end"
    /\ Len(df_filtered.rows) >= 1
    /\ Len(df_filtered.rows) < Len(df_bookings)
    /\ AdvisorActive(criteria)

\* C10: the aggregates of an empty filtered table are empty, and every key
\* of an aggregate is the key of at least one row of the filtered table.
C10_NoEmptyGroups ==
    Aggregated =>
        /\ df_filtered.rows = <<>> =>
              /\ booking_status_counts = Nothing
              /\ bookings_by_month = Nothing
              /\ top_advisors = <<>>
        /\ \A k \in DOMAIN booking_status_counts :
              /\ booking_status_counts[k] >= 1
              /\ \E i \in 1..Len(df_filtered.rows) : df_filtered.rows[i].status = k
        /\ \A m \in DOMAIN bookings_by_month :
              /\ bookings_by_month[m] >= 1
              /\ \E i \in 1..Len(df_filtered.rows) :
                    /\ df_filtered.rows[i].booking_date # NaT
                    /\ MonthOf(df_filtered.rows[i].booking_date) = m
        /\ \A j \in 1..Len(top_advisors) :
              /\ top_advisors[j].bookings >= 1
              /\ \E i \in 1..Len(df_filtered.rows) :
                    df_filtered.rows[i].advisorcode = top_advisors[j].advisorcode

C10_Witness ==
    /\ Aggregated
    /\ df_filtered.rows = <<>>
    /\ BookingOptions(df_bookings) # {}
    /\ booking_status_counts = Nothing

\* C11: a table's query runs on the database at most once per cache
\* window: two runs of the same query are at least TTL seconds apart, so a
\* lookup inside the window of an earlier load (a failed one included)
\* issues no query.
C11_OncePerWindow ==
    \A t \in Tables :
        \A k \in 1..(Len(issued[t]) - 1) :
            issued[t][k + 1] - issued[t][k] >= TTL

\* positions of a run after the date conversion / after apply_filters
\* has returned a table
AfterUnpack ==
    \/ pc \in {"sidebar", "filter", "alerts", "kpi", "revenue", "bookings",
               "agents", "clients", "done"}
    \/ pc = "aborted" /\ error \notin Tables

AfterFilter ==
    pc \in {"alerts", "kpi", "revenue", "bookings", "agents", "clients", "done"}

\* from the date conversion to the end of a run the loaded bookings table
\* has the rows, values and order the load and the conversion gave it
LoadedTableKept ==
    AfterUnpack
        => df_bookings = ConvertDates(bytes_to_dataframe(cache["bookings"].bytes))

\* C12 as stated: in every run of the session, whatever the widgets are set
\* to, the loaded bookings table keeps the rows, values and order it had
\* right after loading, and the filtered table of the pass is a new table.
C12_AlwaysNewTable ==
    /\ LoadedTableKept
    /\ AfterFilter => df_filtered.new

\* C12 amended: in every run of the session, whatever the widgets are set
\* to, the loaded bookings table keeps the rows, values and order it had
\* right after loading, and the filtered table stays what apply_filters
\* returned while the aggregates are derived; the filtered table is a new
\* table exactly when at least one predicate is set, and with none set it
\* is the loaded table itself.
C12_LoadedTableUnchanged ==
    /\ LoadedTableKept
    /\ AfterFilter =>
          /\ df_filtered.err = ""
          /\ df_filtered.rows = apply_filters(df_bookings, columns, criteria).rows
          /\ df_filtered.new <=> ~NoConstraint(criteria)
          /\ ~df_filtered.new => df_filtered.rows = df_bookings

\* a later run of the session, with every widget cleared, has shown the
\* whole page: the filtered table is the loaded table and was aggregated
C12_Witness ==
    /\ pc = "done"
    /\ runs >= 1
    /\ NoConstraint(criteria)
    /\ ~df_filtered.new
    /\ Len(df_bookings) >= 2
    /\ df_filtered.rows = df_bookings
    /\ top_advisors # <<>>

====
